---- MODULE Spec2Model ----
(***************************************************************************)
(* Knotify: the pusher registry (all_pushers / register_pusher), the URI   *)
(* codec (get_pusher / BasePusher.uri) and the push operation of the four  *)
(* built-in pushers of src/knotify/pusher.py.                              *)
(*                                                                         *)
(* Python strings are modelled as sequences of one-character strings, so   *)
(* that urllib's parsing, quoting and str.lower() are computed, not        *)
(* assumed.                                                                *)
(***************************************************************************)
EXTENDS Integers, Sequences, FiniteSets, TLC

(* ---------------------------------------------------------------------- *)
(* Bounds                                                                 *)
(* ---------------------------------------------------------------------- *)

\* longest identity-field value (url / token / sckey / pid) a caller passes
MaxLen == 1

(* ---------------------------------------------------------------------- *)
(* Characters and str.lower()                                             *)
(* ---------------------------------------------------------------------- *)

UPPER == <<"A","B","C","D","E","F","G","H","I","J","K","L","M",
           "N","O","P","Q","R","S","T","U","V","W","X","Y","Z">>
LOWER == <<"a","b","c","d","e","f","g","h","i","j","k","l","m",
           "n","o","p","q","r","s","t","u","v","w","x","y","z">>
DIGITS == <<"0","1","2","3","4","5","6","7","8","9">>

Range(s) == {s[i] : i \in DOMAIN s}

Letters == Range(UPPER) \cup Range(LOWER)

\* str.lower() of one character
lower_char(c) ==
    IF c \in Range(UPPER)
    THEN LOWER[CHOOSE i \in DOMAIN UPPER : UPPER[i] = c]
    ELSE c

\* str.lower()
lower(s) == [i \in DOMAIN s |-> lower_char(s[i])]

\* str.find(c, start) with 1-based positions; 0 when c does not occur
Find(s, c, start) ==
    LET hits == {i \in start..Len(s) : s[i] = c}
    IN  IF hits = {} THEN 0 ELSE CHOOSE i \in hits : \A j \in hits : i <= j

\* s[i:] and s[:i] of Python, 1-based: the characters from / before position i
From(s, i) == IF i > Len(s) THEN <<>> ELSE SubSeq(s, i, Len(s))
Before(s, i) == IF i <= 1 THEN <<>> ELSE SubSeq(s, 1, i - 1)

\* str.split(c)
RECURSIVE Split(_, _)
Split(s, c) ==
    LET i == Find(s, c, 1)
    IN  IF i = 0 THEN <<s>> ELSE <<Before(s, i)>> \o Split(From(s, i + 1), c)

RECURSIVE Concat(_)
Concat(ss) == IF ss = <<>> THEN <<>> ELSE Head(ss) \o Concat(Tail(ss))

(* ---------------------------------------------------------------------- *)
(* urllib.parse: quote_plus / unquote_plus / urlencode / parse_qsl /       *)
(* urlparse, as get_pusher (pusher.py:109,116) uses them                   *)
(* ---------------------------------------------------------------------- *)

\* characters quote_plus leaves alone
SafeChars == Letters \cup Range(DIGITS) \cup {"_", ".", "-", "~"}

\* the percent escapes of the reserved ASCII characters of the model
Escapes == <<
    <<"&", <<"%","2","6">> >>,
    <<"=", <<"%","3","D">> >>,
    <<"+", <<"%","2","B">> >>,
    <<"%", <<"%","2","5">> >>,
    <<"#", <<"%","2","3">> >>,
    <<"?", <<"%","3","F">> >>,
    <<"/", <<"%","2","F">> >>,
    <<":", <<"%","3","A">> >>,
    <<"[", <<"%","5","B">> >>,
    <<"]", <<"%","5","D">> >> >>

Escaped == {Escapes[i][1] : i \in DOMAIN Escapes}

quote_char(c) ==
    IF c \in SafeChars THEN <<c>>
    ELSE IF c = " " THEN <<"+">>
    ELSE IF c \in Escaped
         THEN Escapes[CHOOSE i \in DOMAIN Escapes : Escapes[i][1] = c][2]
         ELSE <<c>>

\* urllib.parse.quote_plus
quote_plus(s) == Concat([i \in DOMAIN s |-> quote_char(s[i])])

\* urllib.parse.unquote applied after replace('+', ' '), as parse_qsl does;
\* a '%' that does not start a known escape stays as it is
RECURSIVE unquote_plus(_)
unquote_plus(s) ==
    IF s = <<>> THEN <<>>
    ELSE IF Head(s) = "+" THEN <<" ">> \o unquote_plus(Tail(s))
    ELSE IF Head(s) = "%" /\ Len(s) >= 3
            /\ \E i \in DOMAIN Escapes :
                   lower(Escapes[i][2]) = lower(SubSeq(s, 1, 3))
         THEN LET i == CHOOSE i \in DOMAIN Escapes :
                           lower(Escapes[i][2]) = lower(SubSeq(s, 1, 3))
              IN  <<Escapes[i][1]>> \o unquote_plus(From(s, 4))
    ELSE <<Head(s)>> \o unquote_plus(Tail(s))

\* urllib.parse.parse_qsl(qs): keep_blank_values is False, so a field with
\* no '=' or with nothing after it is skipped
RECURSIVE parse_fields(_)
parse_fields(fields) ==
    IF fields = <<>> THEN <<>>
    ELSE LET f  == Head(fields)
             eq == Find(f, "=", 1)
         IN  IF f = <<>> \/ eq = 0 \/ From(f, eq + 1) = <<>>
             THEN parse_fields(Tail(fields))
             ELSE << <<unquote_plus(Before(f, eq)),
                       unquote_plus(From(f, eq + 1))>> >>
                  \o parse_fields(Tail(fields))

parse_qsl(qs) == parse_fields(Split(qs, "&"))

\* dict(pairs): the last occurrence of a key wins
dict(pairs) ==
    [k \in {pairs[i][1] : i \in DOMAIN pairs} |->
        LET last == CHOOSE i \in DOMAIN pairs :
                        /\ pairs[i][1] = k
                        /\ \A j \in DOMAIN pairs : pairs[j][1] = k => j <= i
        IN  pairs[last][2]]

\* characters urlsplit accepts in a scheme
scheme_chars == Letters \cup Range(DIGITS) \cup {"+", "-", "."}

\* the end of the netloc: the first of '/', '?', '#' at or after start
NetlocEnd(url, start) ==
    LET hits == {i \in start..Len(url) : url[i] \in {"/", "?", "#"}}
    IN  IF hits = {} THEN Len(url) + 1
        ELSE CHOOSE i \in hits : \A j \in hits : i <= j

\* urlsplit, step 1: a scheme is what stands before the first ':' when it
\* starts with a letter and holds scheme characters only; it is lowercased
SplitSchemeAt(url, colon) ==
    IF /\ colon > 1
       /\ url[1] \in Letters
       /\ \A i \in 1..(colon - 1) : url[i] \in scheme_chars
    THEN [scheme |-> lower(Before(url, colon)), rest |-> From(url, colon + 1)]
    ELSE [scheme |-> <<>>, rest |-> url]

SplitScheme(url) == SplitSchemeAt(url, Find(url, ":", 1))

\* urlsplit, step 2: after '//' the netloc runs up to the first '/', '?', '#'
SplitNetlocAt(url, nend) ==
    IF Len(url) >= 2 /\ url[1] = "/" /\ url[2] = "/"
    THEN [netloc |-> SubSeq(url, 3, nend - 1), rest |-> From(url, nend)]
    ELSE [netloc |-> <<>>, rest |-> url]

SplitNetloc(url) == SplitNetlocAt(url, NetlocEnd(url, 3))

\* urlsplit, step 3: the fragment is cut off, the query follows the first '?'
DropFragmentAt(url, hash) == IF hash = 0 THEN url ELSE Before(url, hash)
DropFragment(url) == DropFragmentAt(url, Find(url, "#", 1))
QueryAt(url, qm) == IF qm = 0 THEN <<>> ELSE From(url, qm + 1)
QueryOf(url) == QueryAt(url, Find(url, "?", 1))

\* urlsplit raises ValueError for a netloc with one kind of square bracket
\* and not the other
ParseResult(scheme, net) ==
    [err    |-> IF ("[" \in Range(net.netloc)) # ("]" \in Range(net.netloc))
                THEN "ValueError" ELSE "",
     scheme |-> scheme,
     netloc |-> net.netloc,
     query  |-> QueryOf(DropFragment(net.rest))]

urlparse_rest(s) == ParseResult(s.scheme, SplitNetloc(s.rest))

\* urllib.parse.urlparse(uri): the scheme, netloc and query, or err
urlparse(uri) == urlparse_rest(SplitScheme(uri))

\* urllib.parse.urlencode of a mapping given as a sequence of pairs
RECURSIVE urlencode(_)
urlencode(pairs) ==
    IF pairs = <<>> THEN <<>>
    ELSE quote_plus(Head(pairs)[1]) \o <<"=">> \o quote_plus(Head(pairs)[2])
         \o (IF Tail(pairs) = <<>> THEN <<>>
             ELSE <<"&">> \o urlencode(Tail(pairs)))

(* ---------------------------------------------------------------------- *)
(* String literals of the program                                         *)
(* ---------------------------------------------------------------------- *)

KNOTIFY      == <<"k","n","o","t","i","f","y">>
URL          == <<"u","r","l">>
TOKEN        == <<"t","o","k","e","n">>
SCKEY        == <<"s","c","k","e","y">>
PID          == <<"p","i","d">>
KEY          == <<"k","e","y">>
SHOW_MESSAGE == <<"s","h","o","w","_","m","e","s","s","a","g","e">>
KnotifyMessage ==
    <<"K","n","o","t","i","f","y"," ","M","e","s","s","a","g","e">>
Markdown     == <<"M","a","r","k","d","o","w","n">>

\* the Python value True (not the four-character string 'True')
PyTrue == <<"True">>

(* ---------------------------------------------------------------------- *)
(* Classes and objects                                                    *)
(* ---------------------------------------------------------------------- *)

\* the four pushers of pusher.py
BuiltinClasses == {"Webhook", "Telegram", "Wechat", "WirePusher"}

\* classes a caller may define: a BasePusher subclass that is also called
\* Telegram, a BasePusher subclass MyPush, and a class Plain that is no
\* BasePusher
UserPusherClasses == {"UserTelegram", "MyPush"}
PusherClasses == BuiltinClasses \cup UserPusherClasses
AllClasses == PusherClasses \cup {"Plain"}

\* cls.__name__
dunder_name(c) ==
    CASE c = "Webhook"      -> <<"W","e","b","h","o","o","k">>
      [] c = "Telegram"     -> <<"T","e","l","e","g","r","a","m">>
      [] c = "Wechat"       -> <<"W","e","c","h","a","t">>
      [] c = "WirePusher"   -> <<"W","i","r","e","P","u","s","h","e","r">>
      [] c = "UserTelegram" -> <<"T","e","l","e","g","r","a","m">>
      [] c = "MyPush"       -> <<"M","y","P","u","s","h">>
      [] c = "Plain"        -> <<"P","l","a","i","n">>

\* issubclass(c, BasePusher)
IsPusherClass(c) == c \in PusherClasses

\* the identity parameter of each __init__ (url / token / sckey / pid)
IdentityField(c) ==
    CASE c = "Webhook"      -> URL
      [] c = "Telegram"     -> TOKEN
      [] c = "Wechat"       -> SCKEY
      [] c = "WirePusher"   -> PID
      [] c \in UserPusherClasses -> KEY

\* parameters of __init__ without / with a default
RequiredParams(c) == IF c = "Plain" THEN {} ELSE {IdentityField(c)}
OptionalParams(c) == IF c = "Plain" THEN {} ELSE {SHOW_MESSAGE}

None == [kind |-> "none", cls |-> "NoneType", attrs |-> <<>>]
ClassObj(c) == [kind |-> "class", cls |-> c, attrs |-> <<>>]
Instance(c, attrs) == [kind |-> "instance", cls |-> c, attrs |-> attrs]

\* the body of Webhook.__init__ and its three siblings: BasePusher.__init__
\* keeps show_message, the subclass keeps its identity field
Init__(c, value, show_message) ==
    Instance(c, (IdentityField(c) :> value) @@ (SHOW_MESSAGE :> show_message))

\* cls(**params): Python binds the keywords to the parameters of __init__
\* and raises TypeError for a missing or an unexpected one
New(c, params) ==
    IF ~(RequiredParams(c) \subseteq DOMAIN params)
       \/ ~(DOMAIN params \subseteq RequiredParams(c) \cup OptionalParams(c))
    THEN [exc |-> "TypeError", obj |-> None]
    ELSE IF c = "Plain"
    THEN [exc |-> "", obj |-> Instance(c, <<>>)]
    ELSE [exc |-> "",
          obj |-> Init__(c, params[IdentityField(c)],
                         IF SHOW_MESSAGE \in DOMAIN params
                         THEN params[SHOW_MESSAGE] ELSE PyTrue)]

\* utils.get_cls_name
get_cls_name(c) == lower(dunder_name(c))

\* BasePusher._format_uri(**kwargs)
format_uri(c, pairs) ==
    KNOTIFY \o <<":","/","/">> \o get_cls_name(c) \o <<"?">> \o urlencode(pairs)

\* the uri property of the four pushers
uri(p) ==
    format_uri(p.cls, << <<IdentityField(p.cls), p.attrs[IdentityField(p.cls)]>> >>)

(* ---------------------------------------------------------------------- *)
(* Registry and URI decoding                                              *)
(* ---------------------------------------------------------------------- *)

\* all_pushers as built when the module is imported
InitialPushers ==
    [k \in {lower(dunder_name(c)) : c \in BuiltinClasses} |->
        CHOOSE c \in BuiltinClasses : lower(dunder_name(c)) = k]

Raise(exc, msg, called) ==
    [exc |-> exc, msg |-> msg, ret |-> None, called |-> called]

\* lines 117-120: the pusher built, or its failure wrapped
get_pusher_made(cls, made) ==
    IF made.exc # ""
    THEN Raise("KnotifyException", made.exc, {cls})
    ELSE [exc |-> "", msg |-> "", ret |-> made.obj, called |-> {cls}]

\* lines 111-118, once the URI is parsed and the type name is known
get_pusher_named(reg, result, cls_name) ==
    IF result.err # "" THEN Raise(result.err, "Invalid IPv6 URL", {})
    ELSE IF result.scheme # KNOTIFY
    THEN Raise("KnotifyException", "Invalid url scheme", {})
    ELSE IF cls_name \notin DOMAIN reg
    THEN Raise("KnotifyException", "Invalid class name", {})
    ELSE get_pusher_made(reg[cls_name],
                         New(reg[cls_name], dict(parse_qsl(result.query))))

\* line 110: cls_name = result.netloc.lower()
get_pusher_parsed(reg, result) ==
    get_pusher_named(reg, result, lower(result.netloc))

\* get_pusher without the .lower() of line 110
get_pusher_case_sensitive(reg, u) ==
    get_pusher_named(reg, urlparse(u), urlparse(u).netloc)

\* get_pusher(uri) against the registry reg: the exception raised (exc, with
\* its message or wrapped cause in msg) or the pusher returned (ret), and the
\* classes whose constructor was called
get_pusher(reg, u) == get_pusher_parsed(reg, urlparse(u))

\* register_pusher that keeps an entry already present
register_pusher_keep_first(reg, pusher) ==
    IF pusher.kind = "class"
    THEN [exc |-> "", msg |-> "",
          reg |-> reg @@ (get_cls_name(pusher.cls) :> pusher.cls)]
    ELSE IF pusher.kind = "instance" /\ IsPusherClass(pusher.cls)
    THEN [exc |-> "", msg |-> "",
          reg |-> reg @@ (get_cls_name(pusher.cls) :> pusher.cls)]
    ELSE [exc |-> "KnotifyException", msg |-> "Invalid pusher type",
          reg |-> reg]

\* register_pusher(pusher) against the registry reg: the exception raised
\* and the registry afterwards
register_pusher(reg, pusher) ==
    IF pusher.kind = "class"
    THEN [exc |-> "", msg |-> "",
          reg |-> (get_cls_name(pusher.cls) :> pusher.cls) @@ reg]
    ELSE IF pusher.kind = "instance" /\ IsPusherClass(pusher.cls)
    THEN [exc |-> "", msg |-> "",
          reg |-> (get_cls_name(pusher.cls) :> pusher.cls) @@ reg]
    ELSE [exc |-> "KnotifyException", msg |-> "Invalid pusher type",
          reg |-> reg]

(* ---------------------------------------------------------------------- *)
(* Pushing                                                                *)
(* ---------------------------------------------------------------------- *)

\* dict.setdefault and dict.update
setdefault(d, k, v) == IF k \in DOMAIN d THEN d ELSE (k :> v) @@ d
update(d, e) == e @@ d

\* the endpoints: _api.format(...) of Telegram and Wechat, _api of WirePusher
TelegramApi(token) == <<"https://tgbot.lbyczf.com/sendMessage/">> \o token
WechatApi(sckey) == <<"http://sc.ftqq.com/">> \o sckey \o <<".send">>
WirePusherApi == <<"https://wirepusher.com/send">>

\* WirePusher._args and WirePusher._mandatory
WirePusherArgs ==
    {"id", "title", "message", "type", "action", "image_url", "message_id"}
WirePusherMandatory == {"id", "title", "message"}

\* the status codes the transport may answer with
Statuses == {200, 500}

\* BasePusher._check_result(response): a status outside 2xx is a failed send
check_result(status) ==
    IF status \in 200..299
    THEN [exc |-> "", msg |-> ""]
    ELSE [exc |-> "KnotifyException", msg |-> "SendFailure"]

\* self.s.post(url, json=body) / self.s.get(url, params=body) followed by
\* _check_result: the pusher afterwards, the requests made, the exception
Send(self, method, url, via, body, status) ==
    LET checked == check_result(status)
    IN  [self |-> self,
         reqs |-> << [method |-> method, url |-> url, via |-> via,
                      body |-> body] >>,
         exc  |-> checked.exc,
         msg  |-> checked.msg]

\* BasePusher._build_body(args, kwargs, mandatory, **defaults): the provided
\* and default fields that are allowed; a missing mandatory field is an error
build_body(args, kwargs, mandatory, defaults) ==
    LET merged == kwargs @@ defaults
        body   == [k \in (DOMAIN merged) \cap args |-> merged[k]]
    IN  [exc  |-> IF mandatory \subseteq DOMAIN body
                  THEN "" ELSE "KnotifyException",
         body |-> body,
         rejected |-> (DOMAIN merged) \ args]

\* Webhook._push that keeps the message in self.url
WebhookPush_overwrites_url(self, message, kwargs, status) ==
    LET kw   == setdefault(kwargs, "content", message)
        self2 == [self EXCEPT !.attrs[URL] = message]
    IN  Send(self2, "POST", self.attrs[URL], "json", kw, status)

\* Webhook._push
WebhookPush(self, message, kwargs, status) ==
    LET kw == setdefault(kwargs, "content", message)
    IN  Send(self, "POST", self.attrs[URL], "json", kw, status)

\* Telegram._push whose defaults overwrite the extras
TelegramPush_defaults_win(self, message, kwargs, status) ==
    LET req_body == update(kwargs,
                           ("text" :> message) @@ ("parse_mode" :> Markdown))
    IN  Send(self, "POST", TelegramApi(self.attrs[TOKEN]), "json", req_body,
             status)

\* Telegram._push
TelegramPush(self, message, kwargs, status) ==
    LET req_body == update(("text" :> message) @@ ("parse_mode" :> Markdown),
                           kwargs)
    IN  Send(self, "POST", TelegramApi(self.attrs[TOKEN]), "json", req_body,
             status)

\* Wechat._push
WechatPush(self, message, kwargs, status) ==
    Send(self, "GET", WechatApi(self.attrs[SCKEY]), "params",
         ("text" :> message), status)

\* WirePusher._push without the default of line 89
WirePusherPush_no_id_default(self, message, kwargs, status) ==
    LET kw2   == setdefault(kwargs, "title", KnotifyMessage)
        built == build_body(WirePusherArgs, kw2, WirePusherMandatory,
                            ("message" :> message))
    IN  IF built.exc # ""
        THEN [self |-> self, reqs |-> <<>>, exc |-> built.exc,
              msg |-> "ConfigurationError"]
        ELSE Send(self, "GET", WirePusherApi, "params", built.body, status)

\* WirePusher._push
WirePusherPush(self, message, kwargs, status) ==
    LET kw1   == setdefault(kwargs, "id", self.attrs[PID])
        kw2   == setdefault(kw1, "title", KnotifyMessage)
        built == build_body(WirePusherArgs, kw2, WirePusherMandatory,
                            ("message" :> message))
    IN  IF built.exc # ""
        THEN [self |-> self, reqs |-> <<>>, exc |-> built.exc,
              msg |-> "ConfigurationError"]
        ELSE Send(self, "GET", WirePusherApi, "params", built.body, status)

\* BasePusher.push(message, **kwargs): the _push of the pusher's class
push(self, message, kwargs, status) ==
    CASE self.cls = "Webhook"    -> WebhookPush(self, message, kwargs, status)
      [] self.cls = "Telegram"   -> TelegramPush(self, message, kwargs, status)
      [] self.cls = "Wechat"     -> WechatPush(self, message, kwargs, status)
      [] self.cls = "WirePusher" -> WirePusherPush(self, message, kwargs, status)

(* ---------------------------------------------------------------------- *)
(* Inputs                                                                 *)
(* ---------------------------------------------------------------------- *)

\* most extra fields a caller passes to one push
MaxExtras == 1

Seqs(S, n) == UNION {[1..k -> S] : k \in 0..n}

\* identity-field values: a plain character and two that urlencode rewrites
ValueChars == {"a", "&", " "}
Values == Seqs(ValueChars, MaxLen)

Messages == { <<"h","i">>, <<>> }

ExtraKeys == {"id", "title", "type", "x", "text", "parse_mode"}
ExtraValue == <<"v">>
Extras ==
    UNION {[ks -> {ExtraValue}] :
              ks \in {s \in SUBSET ExtraKeys : Cardinality(s) <= MaxExtras}}

\* hand-made URIs: scheme://netloc?query
HandMade(scheme, netloc, query) ==
    scheme \o <<":","/","/">> \o netloc \o <<"?">> \o query

Schemes == { KNOTIFY,
             <<"K","n","o","t","i","f","y">>,
             <<"h","t","t","p">> }

Netlocs == { <<"t","e","l","e","g","r","a","m">>,
             <<"T","e","l","e","g","r","a","m">>,
             <<"w","e","b","h","o","o","k">>,
             <<"w","i","r","e","p","u","s","h","e","r">>,
             <<"M","y","P","u","s","h">>,
             <<"p","l","a","i","n">>,
             <<"n","o","p","e">>,
             <<"[","x">> }

Pair(k, v) == k \o <<"=">> \o v
Amp == <<"&">>
X == <<"x">>

Queries == { <<>>,
             Pair(TOKEN, <<"a">>),
             Pair(TOKEN, <<>>),
             Pair(TOKEN, <<"a">>) \o Amp \o Pair(X, <<>>),
             Pair(TOKEN, <<"a">>) \o Amp \o Pair(X, <<"b">>),
             Pair(TOKEN, <<"a">>) \o Amp \o Pair(TOKEN, <<"b">>),
             Pair(TOKEN, <<"a">>) \o Amp \o Pair(SHOW_MESSAGE, <<"b">>),
             Pair(TOKEN, <<"a","%","2","6","+">>),
             Pair(URL, <<"a">>),
             Pair(PID, <<"a">>),
             Pair(KEY, <<"a">>) }

\* every scheme with every type name, and every query for three of them
HandMadeURIs ==
    {HandMade(s, n, Pair(TOKEN, <<"a">>)) : s \in Schemes, n \in Netlocs}
    \cup {HandMade(KNOTIFY, n, q) :
              n \in { <<"T","e","l","e","g","r","a","m">>,
                      <<"M","y","P","u","s","h">>,
                      <<"p","l","a","i","n">> },
              q \in Queries}

\* what a caller may hand to register_pusher: any class, an instance of a
\* pusher class, an instance of a class that is no pusher, None
RegisterArgs ==
    {ClassObj(c) : c \in AllClasses}
    \cup {Init__(c, <<"a">>, PyTrue) : c \in {"Telegram", "UserTelegram", "MyPush"}}
    \cup {Instance("Plain", <<>>), None}

(* ---------------------------------------------------------------------- *)
(* State                                                                  *)
(* ---------------------------------------------------------------------- *)

VARIABLES
    all_pushers,   \* the registry: lowercase type name -> class
    cur,           \* the pusher the caller holds, or None
    last           \* the last call: its arguments and its outcome

vars == <<all_pushers, cur, last>>

Call(op, u, arg, orig, exc, msg, ret, called, reqs) ==
    [op |-> op, uri |-> u, arg |-> arg, orig |-> orig, exc |-> exc,
     msg |-> msg, ret |-> ret, called |-> called, reqs |-> reqs,
     message |-> <<>>, kwargs |-> <<>>, status |-> 0]

Init ==
    /\ all_pushers = InitialPushers
    /\ cur = None
    /\ last = Call("import", <<>>, None, None, "", "", None, {}, <<>>)

\* p = Webhook(url) and its siblings, called directly
Construct(c, v) ==
    /\ cur' = Init__(c, v, PyTrue)
    /\ last' = Call("construct", <<>>, None, None, "", "", cur', {c}, <<>>)
    /\ UNCHANGED all_pushers

\* del p; p = get_pusher(u) for a hand-made URI: the caller holds the pusher
\* returned, or nothing when get_pusher raises
Decode(u) ==
    LET out == get_pusher(all_pushers, u)
    IN  /\ last' = Call("get_pusher", u, None, None, out.exc, out.msg,
                        out.ret, out.called, <<>>)
        /\ cur' = out.ret
        /\ UNCHANGED all_pushers

\* q = get_pusher(p.uri) for the pusher p the caller holds
RoundTrip ==
    /\ cur.kind = "instance"
    /\ cur.cls \in BuiltinClasses
    /\ LET out == get_pusher(all_pushers, uri(cur))
       IN  last' = Call("get_pusher", uri(cur), None, cur, out.exc, out.msg,
                        out.ret, out.called, <<>>)
    /\ UNCHANGED <<all_pushers, cur>>

\* register_pusher(arg)
Register(arg) ==
    LET out == register_pusher(all_pushers, arg)
    IN  /\ all_pushers' = out.reg
        /\ last' = Call("register_pusher", <<>>, arg, None, out.exc, out.msg,
                        None, {}, <<>>)
        /\ UNCHANGED cur

\* p.push(message, **kwargs) with the transport answering status
Push(message, kwargs, status) ==
    /\ cur.kind = "instance"
    /\ cur.cls \in BuiltinClasses
    /\ LET out == push(cur, message, kwargs, status)
       IN  /\ cur' = out.self
           /\ last' = [Call("push", <<>>, None, cur, out.exc, out.msg, None,
                            {}, out.reqs)
                       EXCEPT !.message = message, !.kwargs = kwargs,
                              !.status = status]
    /\ UNCHANGED all_pushers

\* the registry and the URI codec
Next ==
    \/ \E c \in BuiltinClasses, v \in Values : Construct(c, v)
    \/ \E u \in HandMadeURIs : Decode(u)
    \/ RoundTrip
    \/ \E arg \in RegisterArgs : Register(arg)

Spec == Init /\ [][Next]_vars

\* pushing, with one registration beside it
PushNext ==
    \/ \E c \in BuiltinClasses, v \in Values : Construct(c, v)
    \/ \E m \in Messages, kw \in Extras, st \in Statuses : Push(m, kw, st)
    \/ \E arg \in {ClassObj("UserTelegram")} : Register(arg)

PushSpec == Init /\ [][PushNext]_vars

(* ---------------------------------------------------------------------- *)
(* The text of a URI scheme://type-name?query, read off the string itself  *)
(* ---------------------------------------------------------------------- *)

SchemeText(u) == Before(u, Find(u, ":", 1))
TypeNameText(u) == SubSeq(u, Find(u, ":", 1) + 3, Find(u, "?", 1) - 1)
QueryText(u) == From(u, Find(u, "?", 1) + 1)

\* the names of the name=value fields of a query, blank values included
QueryNames(q) ==
    LET fields == Split(q, "&")
    IN  {unquote_plus(Before(fields[i], Find(fields[i], "=", 1))) :
            i \in {j \in DOMAIN fields : Find(fields[j], "=", 1) > 0}}

DeclaredParams(c) == RequiredParams(c) \cup OptionalParams(c)

\* a BasePusher subclass, or an instance of one
Conforming(obj) ==
    /\ obj.kind \in {"class", "instance"}
    /\ obj.cls \in PusherClasses

IsDecode == last.op = "get_pusher"
IsPush == last.op = "push"

(* ---------------------------------------------------------------------- *)
(* URI codec                                                              *)
(* ---------------------------------------------------------------------- *)

\* C1: get_pusher(n.uri), for a pusher n of a registered built-in class,
\* returns a pusher of the same class with the same identity field.
RoundTrip_C1 ==
    (IsDecode /\ last.orig # None
     /\ all_pushers[lower(dunder_name(last.orig.cls))] = last.orig.cls)
    => /\ last.exc = ""
       /\ last.ret.cls = last.orig.cls
       /\ last.ret.attrs[IdentityField(last.orig.cls)]
              = last.orig.attrs[IdentityField(last.orig.cls)]

\* the same round trip for the identity values that are not the empty string
RoundTripNonBlank ==
    (IsDecode /\ last.orig # None
     /\ all_pushers[lower(dunder_name(last.orig.cls))] = last.orig.cls
     /\ last.orig.attrs[IdentityField(last.orig.cls)] # <<>>)
    => /\ last.exc = ""
       /\ last.ret.cls = last.orig.cls
       /\ last.ret.attrs[IdentityField(last.orig.cls)]
              = last.orig.attrs[IdentityField(last.orig.cls)]

\* C2: a URI whose scheme is not knotify (in any letter case) makes
\* get_pusher raise KnotifyException "Invalid url scheme", whatever its type
\* name and query are, and no constructor is called.
InvalidScheme_C2 ==
    (IsDecode /\ lower(SchemeText(last.uri)) # KNOTIFY)
    => /\ last.exc = "KnotifyException"
       /\ last.msg = "Invalid url scheme"
       /\ last.called = {}
       /\ last.ret = None

\* the same for the URIs urlparse accepts; and a scheme that is knotify in
\* any letter case is never refused as invalid
InvalidSchemeWhenParsed ==
    /\ (IsDecode /\ lower(SchemeText(last.uri)) # KNOTIFY
        /\ urlparse(last.uri).err = "")
       => /\ last.exc = "KnotifyException"
          /\ last.msg = "Invalid url scheme"
          /\ last.called = {}
          /\ last.ret = None
    /\ (IsDecode /\ last.msg = "Invalid url scheme")
       => lower(SchemeText(last.uri)) # KNOTIFY

\* C3: with the scheme knotify, a type name that (lowercased) is no key of
\* the registry makes get_pusher raise KnotifyException "Invalid class name"
\* and construct nothing.
UnknownBackend_C3 ==
    (IsDecode /\ lower(SchemeText(last.uri)) = KNOTIFY
     /\ lower(TypeNameText(last.uri)) \notin DOMAIN all_pushers)
    => /\ last.exc = "KnotifyException"
       /\ last.msg = "Invalid class name"
       /\ last.called = {}
       /\ last.ret = None

\* the same for the URIs urlparse accepts, and the other half of C3: no key
\* ever leaves the registry, and get_pusher raises "Invalid class name" only
\* for a type name that is no key
UnknownBackendWhenParsed ==
    /\ (IsDecode /\ lower(SchemeText(last.uri)) = KNOTIFY
        /\ urlparse(last.uri).err = ""
        /\ lower(TypeNameText(last.uri)) \notin DOMAIN all_pushers)
       => /\ last.exc = "KnotifyException"
          /\ last.msg = "Invalid class name"
          /\ last.called = {}
    /\ (IsDecode /\ last.msg = "Invalid class name")
       => lower(TypeNameText(last.uri)) \notin DOMAIN all_pushers

RegistryOnlyGrows ==
    [][DOMAIN all_pushers \subseteq DOMAIN all_pushers']_vars

\* C6: for a registered type name, get_pusher returns a pusher only when the
\* names of the query's parameters are exactly the constructor's (every
\* required one, none it does not declare); otherwise it raises
\* KnotifyException and returns nothing.
ExactParams_C6 ==
    (IsDecode /\ lower(SchemeText(last.uri)) = KNOTIFY
     /\ lower(TypeNameText(last.uri)) \in DOMAIN all_pushers)
    => LET c     == all_pushers[lower(TypeNameText(last.uri))]
           names == QueryNames(QueryText(last.uri))
           exact == /\ RequiredParams(c) \subseteq names
                    /\ names \subseteq DeclaredParams(c)
       IN  /\ last.exc \in {"", "KnotifyException"}
           /\ last.exc = "" => (exact /\ last.ret.cls = c)
           /\ ~exact => (last.exc = "KnotifyException" /\ last.ret = None)

\* the same for the parameters parse_qsl keeps (those with a value)
ExactParamsParsed ==
    (IsDecode /\ lower(SchemeText(last.uri)) = KNOTIFY
     /\ lower(TypeNameText(last.uri)) \in DOMAIN all_pushers)
    => LET c     == all_pushers[lower(TypeNameText(last.uri))]
           names == DOMAIN dict(parse_qsl(QueryText(last.uri)))
           exact == /\ RequiredParams(c) \subseteq names
                    /\ names \subseteq DeclaredParams(c)
       IN  /\ last.exc \in {"", "KnotifyException"}
           /\ last.exc = "" <=> exact
           /\ last.exc = "" => last.ret.cls = c
           /\ ~exact => (last.msg = "TypeError" /\ last.ret = None)

(* ---------------------------------------------------------------------- *)
(* Registry                                                               *)
(* ---------------------------------------------------------------------- *)

\* C4: a successful register_pusher maps the type name of its argument to
\* the argument's class, replacing what was there and leaving every other
\* entry alone; get_pusher constructs the class the registry holds.
LastRegistrationWins_C4 ==
    /\ [][(last'.op = "register_pusher" /\ last'.exc = "")
          => LET k == lower(dunder_name(last'.arg.cls))
             IN  /\ all_pushers'[k] = last'.arg.cls
                 /\ DOMAIN all_pushers' = DOMAIN all_pushers \cup {k}
                 /\ \A j \in DOMAIN all_pushers \ {k} :
                        all_pushers'[j] = all_pushers[j]]_vars
    /\ []((IsDecode /\ last.exc = "")
          => last.ret.cls = all_pushers[lower(TypeNameText(last.uri))])

\* the class UserTelegram took the place of Telegram, and a URI was decoded
\* with it
Witness_C4 ==
    /\ IsDecode
    /\ last.exc = ""
    /\ last.ret.cls = "UserTelegram"
    /\ lower(TypeNameText(last.uri)) = lower(dunder_name("Telegram"))

\* C5: register_pusher raises KnotifyException "Invalid pusher type" for
\* every argument that is neither a BasePusher subclass nor an instance of
\* one.
InvalidRegistration_C5 ==
    (last.op = "register_pusher" /\ ~Conforming(last.arg))
    => /\ last.exc = "KnotifyException"
       /\ last.msg = "Invalid pusher type"

\* what holds of the code: only objects that are no class and no pusher
\* are refused, and a refusal leaves the registry as it was
RegistrationRefusals ==
    /\ [](last.op = "register_pusher"
          => (last.exc = "KnotifyException"
              <=> (last.arg.kind # "class" /\ ~Conforming(last.arg))))
    /\ [][(last'.op = "register_pusher" /\ last'.exc # "")
          => all_pushers' = all_pushers]_vars

\* C7: every key of the registry is lowercase, and two URIs that differ only
\* in the letter case of the type name are decoded alike.
CaseInsensitive_C7 ==
    /\ \A k \in DOMAIN all_pushers : lower(k) = k
    /\ (IsDecode /\ last.orig = None)
       => \A u \in HandMadeURIs :
              (/\ SchemeText(u) = SchemeText(last.uri)
               /\ QueryText(u) = QueryText(last.uri)
               /\ lower(TypeNameText(u)) = lower(TypeNameText(last.uri)))
              => LET other == get_pusher(all_pushers, u)
                 IN  /\ other.exc = last.exc
                     /\ other.msg = last.msg
                     /\ other.called = last.called
                     /\ other.ret = last.ret

\* a class registered under a mixed-case name was found through a URI that
\* spells the type name in mixed case
Witness_C7 ==
    /\ IsDecode
    /\ last.exc = ""
    /\ last.ret.cls = "MyPush"
    /\ TypeNameText(last.uri) # lower(TypeNameText(last.uri))

(* ---------------------------------------------------------------------- *)
(* Pushing                                                                *)
(* ---------------------------------------------------------------------- *)

\* C8: a push, failed or not, leaves the pusher's class, identity field and
\* uri and the registry as they were; when the transport answers with a
\* status outside 2xx the push raises KnotifyException (a failed send).
PushLeavesConfig_C8 ==
    /\ [][last'.op = "push"
          => /\ cur'.cls = cur.cls
             /\ cur'.attrs[IdentityField(cur.cls)]
                    = cur.attrs[IdentityField(cur.cls)]
             /\ uri(cur') = uri(cur)
             /\ last'.orig = cur
             /\ all_pushers' = all_pushers]_vars
    /\ []((IsPush /\ last.status \notin 200..299)
          => (last.exc = "KnotifyException" /\ last.msg = "SendFailure"))
    /\ []((IsPush /\ last.status \in 200..299) => last.exc = "")

\* a Webhook push was answered with 500, after a class was registered
Witness_C8 ==
    /\ all_pushers[lower(dunder_name("Telegram"))] = "UserTelegram"
    /\ IsPush
    /\ last.status = 500
    /\ last.exc = "KnotifyException"
    /\ cur.cls = "Webhook"
    /\ cur.attrs[URL] # <<>>

\* C9: a WirePusher push sends one GET whose parameters hold id, title and
\* message; id is the extras' id or else the pusher's pid, title the extras'
\* title or else 'Knotify Message', message the message; extras outside
\* _args are left out and raise nothing.
WirePusherDefaults_C9 ==
    (IsPush /\ last.orig.cls = "WirePusher")
    => /\ Len(last.reqs) = 1
       /\ last.msg # "ConfigurationError"
       /\ LET req == last.reqs[1]
              kw  == last.kwargs
          IN  /\ req.method = "GET"
              /\ req.url = WirePusherApi
              /\ {"id", "title", "message"} \subseteq DOMAIN req.body
              /\ DOMAIN req.body \subseteq
                     {"id", "title", "message", "type", "action",
                      "image_url", "message_id"}
              /\ req.body["id"] = IF "id" \in DOMAIN kw THEN kw["id"]
                                  ELSE last.orig.attrs[PID]
              /\ req.body["title"] = IF "title" \in DOMAIN kw
                                     THEN kw["title"] ELSE KnotifyMessage
              /\ req.body["message"] = last.message
              /\ \A k \in DOMAIN kw \cap DOMAIN req.body :
                     req.body[k] = kw[k]

\* a WirePusher push with an extra outside _args and no id
Witness_C9 ==
    /\ IsPush
    /\ last.orig.cls = "WirePusher"
    /\ "x" \in DOMAIN last.kwargs
    /\ "id" \notin DOMAIN last.kwargs
    /\ last.reqs # <<>>
    /\ last.reqs[1].body["id"] = last.orig.attrs[PID]

\* C10 as claimed: a Telegram push makes one POST to the endpoint of its
\* token, whose body holds text = message, parse_mode = 'Markdown' and every
\* extra field.
TelegramBody_C10 ==
    (IsPush /\ last.orig.cls = "Telegram")
    => /\ Len(last.reqs) = 1
       /\ LET req == last.reqs[1]
          IN  /\ req.method = "POST"
              /\ req.via = "json"
              /\ req.url = TelegramApi(last.orig.attrs[TOKEN])
              /\ req.body["text"] = last.message
              /\ req.body["parse_mode"] = Markdown
              /\ \A k \in DOMAIN last.kwargs : req.body[k] = last.kwargs[k]

\* C10 as amended: one POST to the endpoint of the token, whose body holds
\* every extra field, text = message unless the extras hold 'text', and
\* parse_mode = 'Markdown' unless the extras hold 'parse_mode'.
TelegramBodyExtrasWin_C10 ==
    (IsPush /\ last.orig.cls = "Telegram")
    => /\ Len(last.reqs) = 1
       /\ LET req == last.reqs[1]
              kw  == last.kwargs
          IN  /\ req.method = "POST"
              /\ req.via = "json"
              /\ req.url = TelegramApi(last.orig.attrs[TOKEN])
              /\ DOMAIN req.body = {"text", "parse_mode"} \cup DOMAIN kw
              /\ \A k \in DOMAIN kw : req.body[k] = kw[k]
              /\ "text" \notin DOMAIN kw => req.body["text"] = last.message
              /\ "parse_mode" \notin DOMAIN kw
                     => req.body["parse_mode"] = Markdown

\* a Telegram push whose extras hold parse_mode
Witness_C10 ==
    /\ IsPush
    /\ last.orig.cls = "Telegram"
    /\ "parse_mode" \in DOMAIN last.kwargs
    /\ last.reqs # <<>>
    /\ last.reqs[1].body["text"] = last.message

====
